---- MODULE Spec2Model ----
(***************************************************************************)
(* Model of callofduty.Client (src/callofduty/client.py): the facade that   *)
(* validates enumerated parameters, awaits calls on the transport object    *)
(* `http`, and reshapes the JSON bodies into Player / Match / Squad /       *)
(* Leaderboard payloads.                                                    *)
(*                                                                          *)
(* A Client operation is a coroutine.  It runs synchronously up to its next *)
(* `await self.http.X(...)`, is suspended while the transport call is in    *)
(* flight, and is resumed with the parsed JSON body or with the exception   *)
(* the transport raised.  Each method of Client is written down as the      *)
(* sequence of its steps (validator calls, awaited transport calls, return) *)
(* in source order, and one interpreter runs those steps.                   *)
(***************************************************************************)
EXTENDS Integers, Sequences, FiniteSets, TLC

VARIABLES
    op,        \* the Client method being executed, "idle" when none
    given,     \* the arguments the caller passed (name -> value)
    locals,    \* its parameters after defaults were applied (name -> value)
    pc,        \* index of the step the method is suspended at / ended at
    status,    \* "idle" | "awaiting" | "done"
    verified,  \* validators invoked so far, in order: <<enum, accepted>>
    calls,     \* transport calls issued so far, in order: [ep, args]
    pending,   \* indices into calls of the transport calls still in flight
    resps,     \* bodies the method holds in its local names, in order
    outcome,   \* "none" | "returned" | the kind of the exception raised
    error,     \* the exception value that ended the method ("" when none)
    result,    \* the value returned to the caller
    lbData,    \* payload handed to the Leaderboard constructor
    fault,     \* the call of this method the transport failed, and with what
    server,    \* upstream state: squad of the authenticated player, session
    pre,       \* upstream state when the method was invoked
    delivered, \* bodies the transport handed to this method, in order
    self,      \* the attributes of the Client instance (name -> value)
    other      \* a second coroutine of the same Client, while it is suspended

vars == <<op, given, locals, pc, status, verified, calls, pending, resps, outcome,
          error, result, lbData, fault, server, pre, delivered, self, other>>

----------------------------------------------------------------------------
(* Bounds of the model *)

\* longest list the transport returns in a body
MaxLen == 2

\* most players the transport returns for a search
MaxPlayers == 3

----------------------------------------------------------------------------
(* enums.py: every member is the pair of its class and its wire token *)

Member(cls, tok) == [cls |-> cls, tok |-> tok]

Platform == { Member("Platform", t) : t \in {"uno", "psn", "xbl", "steam", "battle"} }
Title == { Member("Title", t) : t \in {"mw", "bo4", "wwii", "iw", "bo3"} }
Mode == { Member("Mode", t) : t \in {"mp", "zm", "wz"} }
Language == { Member("Language", t) : t \in {"en", "fr", "de", "it", "es"} }
TimeFrame == { Member("TimeFrame", t) : t \in {"alltime", "monthly", "weekly"} }
GameType == { Member("GameType", t) : t \in {"core", "hc", "arena"} }

Activision == Member("Platform", "uno")
PlayStation == Member("Platform", "psn")
ModernWarfare == Member("Title", "mw")
Multiplayer == Member("Mode", "mp")
English == Member("Language", "en")
AllTime == Member("TimeFrame", "alltime")
Core == Member("GameType", "core")

Enum(cls) ==
    CASE cls = "Platform" -> Platform
      [] cls = "Title" -> Title
      [] cls = "Mode" -> Mode
      [] cls = "Language" -> Language
      [] cls = "TimeFrame" -> TimeFrame
      [] cls = "GameType" -> GameType

\* a plain Python string given where an enumeration member is expected
Str(tok) == [cls |-> "str", tok |-> tok]

\* `x.value`: defined on the members of any enumeration, AttributeError on a str
HasValue(x) == x.cls # "str"
Value(x) == x.tok

\* utils.Verify<E>(value): accepts exactly the members of E
Verify(cls, x) == x \in Enum(cls)

----------------------------------------------------------------------------
(* The steps of a Client method, in source order *)

\* Verify<cls>(p)
Check(cls, p) == [k |-> "verify", cls |-> cls, p |-> p, ep |-> "", args |-> <<>>]
\* await self.http.<ep>(args)
Await(ep, args) == [k |-> "await", cls |-> "", p |-> "", ep |-> ep, args |-> args]
\* return <reshaped bodies>
Return == [k |-> "return", cls |-> "", p |-> "", ep |-> "", args |-> <<>>]

\* an argument of a transport call: `p.value` or `p` as given
Dot(p) == [p |-> p, dot |-> TRUE]
Raw(p) == [p |-> p, dot |-> FALSE]

Logout == << Await("CloseSession", <<>>), Return >>

\* GetLocalize starting the web-localization call as a task and awaiting it
\* together with the app-localization call
GetLocalizeGathered ==
    << Check("Language", "language"),
       [k |-> "start", cls |-> "", p |-> "", ep |-> "GetWebLocalize",
        args |-> <<Dot("language")>>],
       Await("GetAppLocalize", <<Dot("language")>>),
       Return >>

GetLocalize ==
    << Check("Language", "language"),
       Await("GetWebLocalize", <<Dot("language")>>),
       Await("GetAppLocalize", <<Dot("language")>>),
       Return >>

GetNewsFeed == << Await("GetNewsFeed", <<Dot("language")>>), Return >>

GetFriendFeed == << Await("GetFriendFeed", <<>>), Return >>

GetMyIdentities == << Await("GetMyIdentities", <<>>), Return >>

GetMyAccounts == << Await("GetMyAccounts", <<>>), Return >>

GetMyFriends == << Await("GetMyFriends", <<>>), Return >>

GetMyFriendRequests == << Await("GetMyFriends", <<>>), Return >>

GetPlayer == << Check("Platform", "platform"), Return >>

SearchPlayers ==
    << Check("Platform", "platform"),
       Await("SearchPlayer", <<Dot("platform"), Raw("username")>>),
       Return >>

GetPlayerProfile ==
    << Check("Platform", "platform"),
       Check("Title", "title"),
       Check("Mode", "mode"),
       Await("GetPlayerProfile",
             <<Dot("platform"), Raw("username"), Dot("title"), Dot("mode")>>),
       Return >>

\* GetMatch fetching the detail of the match when it builds the Match
GetMatchEager ==
    << Check("Title", "title"),
       Check("Platform", "platform"),
       Await("GetMatch", <<Dot("title"), Dot("platform"), Raw("matchId")>>),
       Return >>

GetMatch == << Check("Title", "title"), Check("Platform", "platform"), Return >>

MatchesArgs ==
    << Dot("platform"), Raw("username"), Dot("title"), Dot("mode"),
       Raw("limit"), Raw("startTimestamp"), Raw("endTimestamp") >>

\* the endpoint is chosen by `platform == Platform.Activision`
GetPlayerMatches(platform) ==
    << Check("Platform", "platform"),
       Check("Title", "title"),
       Check("Mode", "mode"),
       IF platform = Activision
         THEN Await("GetPlayerMatchesDetailed", MatchesArgs)
         ELSE Await("GetPlayerMatches", MatchesArgs),
       Return >>

GetPlayerMatchesSummary ==
    << Check("Platform", "platform"),
       Check("Title", "title"),
       Check("Mode", "mode"),
       Await("GetPlayerMatchesDetailed", MatchesArgs),
       Return >>

GetMatchDetails ==
    << Check("Platform", "platform"),
       Check("Title", "title"),
       Await("GetMatch", <<Dot("title"), Dot("platform"), Raw("matchId")>>),
       Return >>

GetMatchTeams ==
    << Check("Platform", "platform"),
       Check("Title", "title"),
       Await("GetMatch", <<Dot("title"), Dot("platform"), Raw("matchId")>>),
       Return >>

\* GetLeaderboard validating timeFrame only when it injects it into the body
GetLeaderboardLateVerify ==
    << Check("Title", "title"),
       Check("Platform", "platform"),
       Check("GameType", "gameType"),
       Await("GetLeaderboard",
             <<Dot("title"), Dot("platform"), Dot("gameType"), Raw("gameMode"),
               Dot("timeFrame"), Raw("page")>>),
       Check("TimeFrame", "timeFrame"),
       Return >>

GetLeaderboard ==
    << Check("Title", "title"),
       Check("Platform", "platform"),
       Check("GameType", "gameType"),
       Check("TimeFrame", "timeFrame"),
       Await("GetLeaderboard",
             <<Dot("title"), Dot("platform"), Dot("gameType"), Raw("gameMode"),
               Dot("timeFrame"), Raw("page")>>),
       Return >>

GetPlayerLeaderboard ==
    << Check("Title", "title"),
       Check("Platform", "platform"),
       Check("GameType", "gameType"),
       Check("TimeFrame", "timeFrame"),
       Await("GetPlayerLeaderboard",
             <<Dot("title"), Dot("platform"), Raw("username"), Dot("gameType"),
               Raw("gameMode"), Dot("timeFrame")>>),
       Return >>

GetLeaderboardPlayers ==
    << Check("Title", "title"),
       Check("Platform", "platform"),
       Check("GameType", "gameType"),
       Check("TimeFrame", "timeFrame"),
       Await("GetLeaderboard",
             <<Dot("title"), Dot("platform"), Dot("gameType"), Raw("gameMode"),
               Dot("timeFrame"), Raw("page")>>),
       Return >>

GetAvailableMaps ==
    << Await("GetAvailableMaps", <<Dot("title"), Dot("platform"), Dot("mode")>>),
       Return >>

GetLootSeason ==
    << Check("Platform", "platform"),
       Check("Language", "language"),
       Await("GetLootSeason",
             <<Dot("title"), Raw("season"), Dot("platform"), Dot("language")>>),
       Return >>

GetSquad == << Await("GetSquad", <<Raw("name")>>), Return >>

GetPlayerSquad ==
    << Check("Platform", "platform"),
       Await("GetPlayerSquad", <<Dot("platform"), Raw("username")>>),
       Return >>

GetMySquad == << Await("GetMySquad", <<>>), Return >>

\* JoinSquad re-fetching the squad after the join, the way LeaveSquad does
JoinSquadRefetch == << Await("JoinSquad", <<Raw("name")>>) >> \o GetMySquad

JoinSquad == << Await("JoinSquad", <<Raw("name")>>), Return >>

\* `return await self.GetMySquad()` runs the steps of GetMySquad in place
LeaveSquad == << Await("LeaveSquad", <<>>) >> \o GetMySquad

Methods ==
    { "Logout", "GetLocalize", "GetNewsFeed", "GetFriendFeed", "GetMyIdentities",
      "GetMyAccounts", "GetMyFriends", "GetMyFriendRequests", "GetPlayer",
      "SearchPlayers", "GetPlayerProfile", "GetMatch", "GetPlayerMatches",
      "GetPlayerMatchesSummary", "GetMatchDetails", "GetMatchTeams",
      "GetLeaderboard", "GetPlayerLeaderboard", "GetLeaderboardPlayers",
      "GetAvailableMaps", "GetLootSeason", "GetSquad", "GetPlayerSquad",
      "GetMySquad", "JoinSquad", "LeaveSquad" }

Steps(o, a) ==
    CASE o = "Logout" -> Logout
      [] o = "GetLocalize" -> GetLocalize
      [] o = "GetNewsFeed" -> GetNewsFeed
      [] o = "GetFriendFeed" -> GetFriendFeed
      [] o = "GetMyIdentities" -> GetMyIdentities
      [] o = "GetMyAccounts" -> GetMyAccounts
      [] o = "GetMyFriends" -> GetMyFriends
      [] o = "GetMyFriendRequests" -> GetMyFriendRequests
      [] o = "GetPlayer" -> GetPlayer
      [] o = "SearchPlayers" -> SearchPlayers
      [] o = "GetPlayerProfile" -> GetPlayerProfile
      [] o = "GetMatch" -> GetMatch
      [] o = "GetPlayerMatches" -> GetPlayerMatches(a["platform"])
      [] o = "GetPlayerMatchesSummary" -> GetPlayerMatchesSummary
      [] o = "GetMatchDetails" -> GetMatchDetails
      [] o = "GetMatchTeams" -> GetMatchTeams
      [] o = "GetLeaderboard" -> GetLeaderboard
      [] o = "GetPlayerLeaderboard" -> GetPlayerLeaderboard
      [] o = "GetLeaderboardPlayers" -> GetLeaderboardPlayers
      [] o = "GetAvailableMaps" -> GetAvailableMaps
      [] o = "GetLootSeason" -> GetLootSeason
      [] o = "GetSquad" -> GetSquad
      [] o = "GetPlayerSquad" -> GetPlayerSquad
      [] o = "GetMySquad" -> GetMySquad
      [] o = "JoinSquad" -> JoinSquad
      [] o = "LeaveSquad" -> LeaveSquad

----------------------------------------------------------------------------
(* Parameters: what the caller gives, and the defaults of the signatures    *)
(* and of the kwargs.get(...) calls                                         *)

Defaults(o) ==
    CASE o \in {"GetLocalize", "GetNewsFeed"} -> [language |-> English]
      [] o = "SearchPlayers" -> [limit |-> 0]
      [] o \in {"GetPlayerMatches", "GetPlayerMatchesSummary"} ->
            [limit |-> 10, startTimestamp |-> 0, endTimestamp |-> 0]
      [] o \in {"GetLeaderboard", "GetLeaderboardPlayers"} ->
            [gameType |-> Core, gameMode |-> "career", timeFrame |-> AllTime,
             page |-> 1]
      [] o = "GetPlayerLeaderboard" ->
            [gameType |-> Core, gameMode |-> "career", timeFrame |-> AllTime]
      [] o = "GetAvailableMaps" -> [platform |-> PlayStation, mode |-> Multiplayer]
      [] o = "GetLootSeason" -> [platform |-> PlayStation, language |-> English]
      [] OTHER -> <<>>

\* the locals of the method: what was given, else the default
Bind(o, g) ==
    LET d == Defaults(o)
    IN  [n \in DOMAIN g \cup DOMAIN d |-> IF n \in DOMAIN g THEN g[n] ELSE d[n]]

\* values a caller passes for a parameter documented as a member of cls: its
\* members, a member of another enumeration, and a plain string
Foreign(cls) == IF cls = "Title" THEN PlayStation ELSE ModernWarfare
\* the members the callers of the model pass: Activision and one other
\* platform (the two branches of GetPlayerMatches), every TimeFrame, and two
\* members of the other enumerations
Sample(cls) ==
    CASE cls = "Platform" -> {Activision, PlayStation}
      [] cls = "Title" -> {ModernWarfare, Member("Title", "bo4")}
      [] cls = "Mode" -> {Multiplayer, Member("Mode", "wz")}
      [] cls = "Language" -> {English, Member("Language", "fr")}
      [] cls = "TimeFrame" -> TimeFrame
      [] cls = "GameType" -> {Core, Member("GameType", "hc")}
Passed(cls) == Sample(cls) \cup {Foreign(cls), Str("psn")}

Squads == {"Foo", "Bar"}

\* a required parameter n drawn from S / an optional one / both together
Req(n, S) == { [x \in {n} |-> v] : v \in S }
Opt(n, S) == { [x \in {} |-> 0] } \cup Req(n, S)
With(A, B) ==
    { [n \in DOMAIN f \cup DOMAIN g |-> IF n \in DOMAIN f THEN f[n] ELSE g[n]] :
        f \in A, g \in B }

Given(o) ==
    CASE o \in {"GetLocalize", "GetNewsFeed"} -> Opt("language", Passed("Language"))
      [] o \in {"GetPlayer", "GetPlayerSquad"} ->
            With(Req("platform", Passed("Platform")), Req("username", {"user"}))
      [] o = "SearchPlayers" ->
            With(With(Req("platform", Passed("Platform")), Req("username", {"user"})),
                 Opt("limit", -1 .. MaxPlayers + 1))
      [] o \in {"GetPlayerProfile", "GetPlayerMatches", "GetPlayerMatchesSummary"} ->
            With(With(Req("platform", Passed("Platform")), Req("username", {"user"})),
                 With(Req("title", Passed("Title")), Req("mode", Passed("Mode"))))
      [] o \in {"GetMatch", "GetMatchDetails", "GetMatchTeams"} ->
            With(With(Req("title", Passed("Title")), Req("platform", Passed("Platform"))),
                 Req("matchId", {7}))
      [] o \in {"GetLeaderboard", "GetLeaderboardPlayers", "GetPlayerLeaderboard"} ->
            With(With(Req("title", Passed("Title")), Req("platform", Passed("Platform"))),
                 With(With(Opt("gameType", Passed("GameType")),
                           Opt("timeFrame", Passed("TimeFrame"))),
                      IF o = "GetPlayerLeaderboard"
                        THEN Req("username", {"user"})
                        ELSE Opt("page", {1})))
      [] o = "GetAvailableMaps" ->
            With(Req("title", Passed("Title")),
                 With(Opt("platform", Passed("Platform")), Opt("mode", Passed("Mode"))))
      [] o = "GetLootSeason" ->
            With(With(Req("title", Passed("Title")), Req("season", {1})),
                 With(Opt("platform", Passed("Platform")),
                      Opt("language", Passed("Language"))))
      [] o \in {"GetSquad", "JoinSquad"} -> Req("name", Squads)
      [] OTHER -> { [x \in {} |-> 0] }

----------------------------------------------------------------------------
(* Running a method from step i up to its next suspension or its end *)

Ended(i, ver, end, exc) == [at |-> i, verified |-> ver, end |-> end, exc |-> exc]

RECURSIVE Run(_, _, _, _)
Run(steps, a, i, ver) ==
    LET s == steps[i]
    IN  CASE s.k = "verify" ->
               IF Verify(s.cls, a[s.p])
                 THEN Run(steps, a, i + 1, Append(ver, <<s.cls, s.p>>))
                 ELSE Ended(i, Append(ver, <<s.cls, s.p>>), "raise", "InvalidArgument")
          [] s.k = "await" ->
               IF \A j \in 1 .. Len(s.args) : s.args[j].dot => HasValue(a[s.args[j].p])
                 THEN Ended(i, ver, "await", "")
                 ELSE Ended(i, ver, "raise", "AttributeError")
          [] s.k = "start" ->
               IF \A j \in 1 .. Len(s.args) : s.args[j].dot => HasValue(a[s.args[j].p])
                 THEN Run(steps, a, i + 1, ver)
                 ELSE Ended(i, ver, "raise", "AttributeError")
          [] s.k = "return" -> Ended(i, ver, "return", "")

\* the transport call of an await step: endpoint and the values sent
Request(s, a) ==
    [ep |-> s.ep,
     args |-> [j \in 1 .. Len(s.args) |->
                  IF s.args[j].dot THEN Value(a[s.args[j].p]) ELSE a[s.args[j].p]]]

\* the transport calls a run from step i up to r has put in flight, in
\* order: one per call it started on the way and the one it suspended on
RECURSIVE Issued(_, _, _, _)
Issued(steps, a, i, r) ==
    IF i > r.at THEN <<>>
    ELSE IF (i < r.at /\ steps[i].k = "start") \/ (i = r.at /\ r.end = "await")
      THEN <<Request(steps[i], a)>> \o Issued(steps, a, i + 1, r)
    ELSE Issued(steps, a, i + 1, r)

----------------------------------------------------------------------------
(* Python values inside the JSON bodies.  A str is the sequence of its      *)
(* characters: the digits are 0 .. 9, any other character is a number       *)
(* outside Digit.                                                           *)

Digit == 0 .. 9

Nothing == [t |-> "None", v |-> 0]
PyStr(cs) == [t |-> "str", v |-> cs]
PyInt(n) == [t |-> "int", v |-> n]
PyDict(d) == [t |-> "dict", v |-> d]

\* d.get(k): None when the key is absent
Get(d, k) == IF k \in DOMAIN d THEN d[k] ELSE Nothing

\* d[k] = v
Put(d, k, v) == [x \in DOMAIN d \cup {k} |-> IF x = k THEN v ELSE d[x]]

\* an insertion-ordered dict is the sequence of its <<key, value>> items
Keys(od) == [i \in 1 .. Len(od) |-> od[i][1]]
Item(od, k) == od[CHOOSE i \in 1 .. Len(od) : od[i][1] = k][2]

\* int(s) accepts the strings made of digits
IsNumeric(cs) == Len(cs) > 0 /\ \A i \in 1 .. Len(cs) : cs[i] \in Digit
RECURSIVE int(_)
int(cs) == IF Len(cs) = 0 THEN 0
           ELSE 10 * int(SubSeq(cs, 1, Len(cs) - 1)) + cs[Len(cs)]

----------------------------------------------------------------------------
(* The transport `http` and the upstream service behind it *)

\* failures the transport raises: network, non-2xx status, malformed JSON
TransportErrors == {"NetworkError", "HttpStatusError", "JsonDecodeError"}

\* a body this layer hands on or indexes without looking inside
Json(ep) == [data |-> [t |-> "json", v |-> ep]]

\* the lists of at most n elements of S
SeqsUpTo(S, n) == UNION { [1 .. k -> S] : k \in 0 .. n }

\* the insertion-ordered dicts with keys in K and values in V
OrderedDicts(K, V) ==
    { od \in SeqsUpTo(K \X V, Cardinality(K)) :
        \A i, j \in 1 .. Len(od) : od[i][1] = od[j][1] => i = j }

LocalizeBodies == UNION { [K -> {"one", "two"}] : K \in SUBSET {"title", "ok"} }

\* search results: accountId as str, as int or absent; avatar as dict, as str
\* or absent
SearchEntries ==
    { [platform |-> "psn", username |-> "a", accountId |-> PyStr(<<1, 2>>),
       avatar |-> PyDict([avatarUrlLargeSsl |-> PyStr(<<10, 1>>)])],
      [platform |-> "psn", username |-> "b", accountId |-> PyInt(7),
       avatar |-> PyStr(<<10, 2>>)],
      [platform |-> "psn", username |-> "c"] }

MatchIds == { <<1, 2>>, <<0, 7>> }

UnoFriends ==
    { [platform |-> "uno", username |-> "u1", accountId |-> PyStr(<<1>>),
       status |-> [online |-> TRUE]],
      [platform |-> "uno", username |-> "u2", status |-> [online |-> FALSE]] }

FirstPartyFriendsOf(platform) ==
    { [platform |-> platform, username |-> "f1", status |-> [online |-> FALSE]],
      [platform |-> platform, username |-> "f2", accountId |-> PyStr(<<2>>),
       avatarUrlLargeSsl |-> PyStr(<<10, 3>>), status |-> [online |-> TRUE],
       identities |->
         << <<"uno", [platform |-> "uno", username |-> "i1",
                      accountId |-> PyStr(<<3>>),
                      avatarUrlLargeSsl |-> PyStr(<<10, 4>>)]>>,
            <<"xbl", [platform |-> "xbl", username |-> "i2",
                      accountId |-> PyStr(<<4>>)]>> >>] }

FriendsBodies ==
    { [data |-> [uno |-> uno, firstParty |-> firstParty,
                 incomingInvitations |-> uno, outgoingInvitations |-> <<>>]] :
        uno \in SeqsUpTo(UnoFriends, MaxLen),
        firstParty \in OrderedDicts({"psn", "xbl"},
                                    SeqsUpTo(FirstPartyFriendsOf("psn"), MaxLen)) }

LeaderboardBodies ==
    { [data |-> d] :
        d \in UNION { { [entries |-> e], [entries |-> e, timeFrame |-> "alltime"],
                        [entries |-> e, timeFrame |-> "weekly"] } :
                      e \in SeqsUpTo({[username |-> "a"], [username |-> "b"]}, MaxLen) } }

\* bodies the transport can return for a request, given the upstream state
Bodies(req, srv) ==
    CASE req.ep \in {"CloseSession", "JoinSquad", "LeaveSquad"} -> {Nothing}
      [] req.ep = "GetMySquad" -> { [data |-> [name |-> srv.squad]] }
      [] req.ep = "GetSquad" -> { [data |-> [name |-> req.args[1]]] }
      [] req.ep = "GetPlayerSquad" -> { [data |-> [name |-> n]] : n \in Squads }
      [] req.ep \in {"GetWebLocalize", "GetAppLocalize"} -> LocalizeBodies
      [] req.ep = "GetFriendFeed" ->
            { [data |-> [identities |-> <<[platform |-> "psn", username |-> "a"]>>,
                         events |-> <<>>, metadata |-> Json("metadata")]] }
      [] req.ep = "GetMyIdentities" ->
            { [data |-> [titleIdentities |->
                  << [title |-> t, platform |-> "psn", username |-> "a",
                      activeDate |-> 0, activityType |-> "played"] >>]] :
                t \in {"mw", "cw"} }
      [] req.ep = "GetMyAccounts" ->
            { [data |-> << <<"psn", [username |-> "a"]>>,
                           <<"uno", [username |-> "b"]>> >>] }
      [] req.ep = "GetMyFriends" -> FriendsBodies
      [] req.ep = "SearchPlayer" ->
            { [data |-> d] : d \in SeqsUpTo(SearchEntries, MaxPlayers) }
      [] req.ep = "GetPlayerMatchesDetailed" ->
            { [data |-> [matches |-> m, summary |-> Json("summary")]] :
                m \in SeqsUpTo({ [matchID |-> PyStr(cs)] : cs \in MatchIds }, MaxLen) }
      [] req.ep = "GetPlayerMatches" ->
            { [data |-> m] :
                m \in SeqsUpTo({ [matchId |-> PyStr(cs)] : cs \in MatchIds }, MaxLen) }
      [] req.ep = "GetMatch" ->
            { [data |-> [teams |->
                  << <<[provider |-> "psn", username |-> "a", unoId |-> PyStr(<<1>>)]>>,
                     <<[provider |-> "xbl", username |-> "b", unoId |-> PyStr(<<2>>)]>> >>]] }
      [] req.ep \in {"GetLeaderboard", "GetPlayerLeaderboard"} -> LeaderboardBodies
      [] OTHER -> { Json(req.ep) }

\* what a request that succeeded did upstream.  Leaving a squad places the
\* player into another one; joining moves the player; Logout closes the session
Upstream(req, srv) ==
    CASE req.ep = "CloseSession" -> { [srv EXCEPT !.open = FALSE] }
      [] req.ep = "JoinSquad" -> { [srv EXCEPT !.squad = req.args[1]] }
      [] req.ep = "LeaveSquad" ->
            { [srv EXCEPT !.squad = n] : n \in Squads \ {srv.squad} }
      [] OTHER -> { srv }

----------------------------------------------------------------------------
(* Reshaping the bodies into the returned value *)

Returned(value, lb) == [exc |-> "", value |-> value, lb |-> lb]
Raised(exc) == [exc |-> exc, value |-> Nothing, lb |-> Nothing]

Player(data) == [cls |-> "Player", data |-> data]
Match(data) == [cls |-> "Match", data |-> data]
Squad(data) == [cls |-> "Squad", data |-> data]
Leaderboard(data) == [cls |-> "Leaderboard", data |-> data]

\* {**app, **web}
GetLocalizeReturnWebLast(web, app) ==
    [k \in DOMAIN web \cup DOMAIN app |-> IF k \in DOMAIN web THEN web[k] ELSE app[k]]

\* {**web, **app}
GetLocalizeReturn(web, app) ==
    [k \in DOMAIN web \cup DOMAIN app |-> IF k \in DOMAIN app THEN app[k] ELSE web[k]]

GetFriendFeedReturn(data) ==
    [events |-> data.events,
     players |-> [i \in 1 .. Len(data.identities) |->
                     Player([platform |-> data.identities[i].platform,
                             username |-> data.identities[i].username])],
     metadata |-> data.metadata]

\* Title(token), Platform(token): the member with that wire token
ByValue(cls, tok) == Member(cls, tok)

\* Title(token), Platform(token) of a token no member has: ValueError
Known(cls, tok) == ByValue(cls, tok) \in Enum(cls)

GetMyIdentitiesReturn(data) ==
    IF \E i \in 1 .. Len(data.titleIdentities) :
          \/ ~Known("Title", data.titleIdentities[i].title)
          \/ ~Known("Platform", data.titleIdentities[i].platform)
      THEN Raised("ValueError")
      ELSE Returned(
             [i \in 1 .. Len(data.titleIdentities) |->
                 LET identity == data.titleIdentities[i]
                 IN  [title |-> ByValue("Title", identity.title),
                      platform |-> ByValue("Platform", identity.platform),
                      username |-> identity.username,
                      activeDate |-> identity.activeDate,
                      activityType |-> identity.activityType]], Nothing)

GetMyAccountsReturn(data) ==
    [i \in 1 .. Len(data) |->
        Player([platform |-> Keys(data)[i],
                username |-> Item(data, Keys(data)[i]).username])]

\* the Player of one entry of data["uno"] or of an invitation list
UnoFriend(friend) ==
    Player([platform |-> friend["platform"],
            username |-> friend["username"],
            accountId |-> Get(friend, "accountId"),
            online |-> friend["status"].online])

\* the inner loop `for _platform in i`: one Player per key of the identities
\* of the friend, i being friend.get("identities", [])
Identities(friend) ==
    LET i == IF "identities" \in DOMAIN friend THEN friend["identities"] ELSE <<>>
    IN  [n \in 1 .. Len(i) |->
            LET identity == Item(friend["identities"], Keys(i)[n])
            IN  Player([platform |-> identity["platform"],
                        username |-> identity["username"],
                        accountId |-> identity["accountId"],
                        avatarUrl |-> Get(identity, "avatarUrlLargeSsl")])]

\* the identities of the friend appended to `friends` as well
FirstPartyFriendFlat(friend) ==
    Identities(friend)
      \o << Player([platform |-> friend["platform"],
                    username |-> friend["username"],
                    accountId |-> Get(friend, "accountId"),
                    avatarUrl |-> Get(friend, "avatarUrlLargeSsl"),
                    online |-> friend["status"].online,
                    identities |-> Identities(friend)]) >>

\* what the loop over one friend of data["firstParty"][_platform] appends
FirstPartyFriend(friend) ==
    << Player([platform |-> friend["platform"],
               username |-> friend["username"],
               accountId |-> Get(friend, "accountId"),
               avatarUrl |-> Get(friend, "avatarUrlLargeSsl"),
               online |-> friend["status"].online,
               identities |-> Identities(friend)]) >>

\* `for friend in data["firstParty"][_platform]`.  The list is looked up once,
\* when the loop starts, so the inner loop's reuse of the name _platform does
\* not change which friends are visited
RECURSIVE FirstPartyFriends(_, _)
FirstPartyFriends(list, n) ==
    IF n > Len(list) THEN <<>>
    ELSE FirstPartyFriend(list[n]) \o FirstPartyFriends(list, n + 1)

\* `for _platform in data["firstParty"]`
RECURSIVE FirstParty(_, _)
FirstParty(firstParty, p) ==
    IF p > Len(firstParty) THEN <<>>
    ELSE FirstPartyFriends(Item(firstParty, Keys(firstParty)[p]), 1)
           \o FirstParty(firstParty, p + 1)

GetMyFriendsReturn(data) ==
    [i \in 1 .. Len(data.uno) |-> UnoFriend(data.uno[i])] \o FirstParty(data.firstParty, 1)

GetMyFriendRequestsReturn(data) ==
    [incoming |-> [i \in 1 .. Len(data.incomingInvitations) |->
                      UnoFriend(data.incomingInvitations[i])],
     outgoing |-> [i \in 1 .. Len(data.outgoingInvitations) |->
                      UnoFriend(data.outgoingInvitations[i])]]

\* data[:limit - 1]
SliceToExclusive(data, limit) ==
    SubSeq(data, 1, IF limit - 1 < Len(data) THEN limit - 1 ELSE Len(data))

\* data[:limit] for limit > 0
SliceTo(data, limit) == SubSeq(data, 1, IF limit < Len(data) THEN limit ELSE Len(data))

\* `for player in data`: the loop walks the list `data` named when it started
\* (it), while its body rebinds the name `data` to the dict of each Player
RECURSIVE SearchPlayersLoop(_, _, _, _)
\* the loop without its two isinstance branches: accountId and avatar go
\* into the Player as the body gave them
SearchPlayersLoopAsGiven(it, n, data, results) ==
    IF n > Len(it) THEN Returned(results, Nothing)
    ELSE LET player == it[n]
             data2 == [platform |-> player["platform"],
                       username |-> player["username"],
                       accountId |-> Get(player, "accountId"),
                       avatarUrl |-> Get(player, "avatar")]
         IN  SearchPlayersLoop(it, n + 1, data2, Append(results, Player(data2)))

SearchPlayersLoop(it, n, data, results) ==
    IF n > Len(it) THEN Returned(results, Nothing)
    ELSE LET player == it[n]
             accountId == Get(player, "accountId")
             avatar == Get(player, "avatar")
         IN  IF accountId.t = "str" /\ ~IsNumeric(accountId.v) THEN Raised("ValueError")
             ELSE IF avatar.t = "dict" /\ "avatarUrlLargeSsl" \notin DOMAIN avatar.v
               THEN Raised("KeyError")
             ELSE LET data2 ==
                        [platform |-> player["platform"],
                         username |-> player["username"],
                         accountId |-> IF accountId.t = "str"
                                         THEN PyInt(int(accountId.v)) ELSE accountId,
                         avatarUrl |-> IF avatar.t = "dict"
                                         THEN avatar.v["avatarUrlLargeSsl"] ELSE avatar]
                  IN  SearchPlayersLoop(it, n + 1, data2, Append(results, Player(data2)))

SearchPlayersReturn(a, data) ==
    LET limit == a["limit"]
        sliced == IF limit > 0 THEN SliceTo(data, limit) ELSE data
    IN  SearchPlayersLoop(sliced, 1, sliced, <<>>)

\* both branches of GetPlayerMatches reading the id from `matchId`
MatchIdKeyStandard(platform) == "matchId"

\* the JSON key that holds the id of a match, by branch of GetPlayerMatches
MatchIdKey(platform) == IF platform = Activision THEN "matchID" ELSE "matchId"

\* the list of matches in the body, by branch of GetPlayerMatches
MatchList(platform, body) ==
    IF platform = Activision THEN body.data.matches ELSE body.data

RECURSIVE MatchesLoop(_, _, _, _)
MatchesLoop(data, n, a, matches) ==
    IF n > Len(data) THEN Returned(matches, Nothing)
    ELSE LET key == MatchIdKey(a["platform"])
         IN  IF key \notin DOMAIN data[n] THEN Raised("KeyError")
             ELSE IF ~IsNumeric(data[n][key].v) THEN Raised("ValueError")
             ELSE MatchesLoop(data, n + 1, a,
                     Append(matches,
                            Match([id |-> int(data[n][key].v),
                                   platform |-> Value(a["platform"]),
                                   title |-> Value(a["title"])])))

GetPlayerMatchesReturn(a, body) == MatchesLoop(MatchList(a["platform"], body), 1, a, <<>>)

GetMatchTeamsReturn(data) ==
    [t \in 1 .. Len(data) |->
        [n \in 1 .. Len(data[t]) |->
            Player([platform |-> data[t][n].provider,
                    username |-> data[t][n].username,
                    accountId |-> data[t][n].unoId])]]

\* data.setdefault("timeFrame", timeFrame.value): a timeFrame of the body is kept
WithTimeFrameIfAbsent(data, timeFrame) ==
    IF "timeFrame" \in DOMAIN data THEN data ELSE Put(data, "timeFrame", Value(timeFrame))

\* data["timeFrame"] = timeFrame.value
WithTimeFrame(data, timeFrame) == Put(data, "timeFrame", Value(timeFrame))

\* Leaderboard.entries
Entries(leaderboard) == leaderboard.data["entries"]

GetLeaderboardPlayersReturn(a, data) ==
    LET entries == Entries(Leaderboard(data))
    IN  [n \in 1 .. Len(entries) |->
            Player([platform |-> Value(a["platform"]), username |-> entries[n].username])]

\* LeaveSquad returning a Squad built from the (empty) body of the leave call
LeaveSquadReturnEmpty(r) == Squad([name |-> ""])

\* LeaveSquad returns what its `await self.GetMySquad()` returned
LeaveSquadReturn(r) == Squad(r[2].data)

Reshape(o, a, r) ==
    CASE o \in {"Logout", "JoinSquad"} -> Returned(Nothing, Nothing)
      [] o = "GetLocalize" -> Returned(GetLocalizeReturn(r[1], r[2]), Nothing)
      [] o = "GetNewsFeed" -> Returned(r[1], Nothing)
      [] o = "GetFriendFeed" -> Returned(GetFriendFeedReturn(r[1].data), Nothing)
      [] o = "GetMyIdentities" -> GetMyIdentitiesReturn(r[1].data)
      [] o = "GetMyAccounts" -> Returned(GetMyAccountsReturn(r[1].data), Nothing)
      [] o = "GetMyFriends" -> Returned(GetMyFriendsReturn(r[1].data), Nothing)
      [] o = "GetMyFriendRequests" ->
            Returned(GetMyFriendRequestsReturn(r[1].data), Nothing)
      [] o = "GetPlayer" ->
            Returned(Player([platform |-> Value(a["platform"]),
                             username |-> a["username"]]), Nothing)
      [] o = "SearchPlayers" -> SearchPlayersReturn(a, r[1].data)
      [] o = "GetMatch" ->
            Returned(Match([id |-> a["matchId"], platform |-> Value(a["platform"]),
                            title |-> Value(a["title"])]), Nothing)
      [] o = "GetPlayerMatches" -> GetPlayerMatchesReturn(a, r[1])
      [] o = "GetPlayerMatchesSummary" -> Returned(r[1].data.summary, Nothing)
      [] o = "GetMatchTeams" -> Returned(GetMatchTeamsReturn(r[1].data.teams), Nothing)
      [] o \in {"GetLeaderboard", "GetPlayerLeaderboard"} ->
            LET data == WithTimeFrame(r[1].data, a["timeFrame"])
            IN  Returned(Leaderboard(data), data)
      [] o = "GetLeaderboardPlayers" ->
            LET data == WithTimeFrame(r[1].data, a["timeFrame"])
            IN  Returned(GetLeaderboardPlayersReturn(a, data), data)
      [] o \in {"GetSquad", "GetPlayerSquad", "GetMySquad"} ->
            Returned(Squad(r[1].data), Nothing)
      [] o = "LeaveSquad" -> Returned(LeaveSquadReturn(r), Nothing)
      [] OTHER -> Returned(r[1].data, Nothing)

----------------------------------------------------------------------------
(* Actions *)

\* a Client that issues the failed transport call once more
Retry(steps, a, i, ver, e) == Ended(i, ver, "await", "")

\* an exception raised by an awaited transport call: no method of Client has
\* a try/except, so it leaves the method as it is
Propagate(steps, a, i, ver, e) == Ended(i, ver, "raise", e)

Kind(exc) == IF exc \in TransportErrors THEN "TransportFailure" ELSE exc

\* the method ran from step i up to r: suspend on the transport call, return,
\* or raise
Advance(o, a, i, r, bodies, inflight) ==
    /\ pc' = r.at
    /\ verified' = r.verified
    /\ calls' = calls \o Issued(Steps(o, a), a, i, r)
    /\ pending' = inflight \cup (Len(calls) + 1 .. Len(calls'))
    /\ IF r.end = "await"
         THEN /\ status' = "awaiting"
              /\ outcome' = "none"
              /\ error' = ""
              /\ result' = Nothing
              /\ lbData' = Nothing
         ELSE LET out == IF r.end = "return" THEN Reshape(o, a, bodies)
                                               ELSE Raised(r.exc)
              IN  /\ status' = "done"
                  /\ outcome' = IF out.exc = "" THEN "returned" ELSE Kind(out.exc)
                  /\ error' = out.exc
                  /\ result' = out.value
                  /\ lbData' = out.lb

\* the caller invokes method o with the arguments g (on a Client whose
\* session Logout has not closed)
Invoke(o, g) ==
    /\ status = "idle"
    /\ server.open
    /\ LET a == Bind(o, g)
       IN  /\ op' = o
           /\ given' = g
           /\ locals' = a
           /\ pre' = server
           /\ Advance(o, a, 1, Run(Steps(o, a), a, 1, <<>>), <<>>, {})
    /\ UNCHANGED <<resps, server, fault, delivered, self, other>>

Call(o) == \E g \in Given(o) : Invoke(o, g)

\* a method keeping the bodies in one attribute of the Client: it starts the
\* list anew with its first body and reads the list back after each await
KeepOnSelf(frame, attrs, body) ==
    LET before == IF frame = <<>> \/ "bodies" \notin DOMAIN attrs
                    THEN <<>> ELSE attrs["bodies"]
        now == Append(before, body)
    IN  [frame |-> now, attrs |-> Put(attrs, "bodies", now)]

\* `x = await self.http...`: the body is bound to a local name of the
\* running method; no attribute of the Client is assigned
Keep(frame, attrs, body) == [frame |-> Append(frame, body), attrs |-> attrs]

\* a transport call in flight returns a body; the method resumes once
\* nothing it waits for is in flight
TransportReturn ==
    /\ status = "awaiting"
    /\ \E j \in pending :
       \E srv \in Upstream(calls[j], server) :
       \E body \in Bodies(calls[j], srv) :
          /\ server' = srv
          /\ delivered' = Append(delivered, body)
          /\ resps' = Keep(resps, self, body).frame
          /\ self' = Keep(resps, self, body).attrs
          /\ IF pending = {j}
               THEN LET r == Run(Steps(op, locals), locals, pc + 1, verified)
                    IN  Advance(op, locals, pc + 1, r, resps', {})
               ELSE /\ pending' = pending \ {j}
                    /\ UNCHANGED <<pc, status, verified, calls, outcome, error,
                                   result, lbData>>
    /\ UNCHANGED <<op, given, locals, pre, fault, other>>

\* the transport call in flight raises; nothing changed upstream
TransportRaise ==
    /\ status = "awaiting"
    /\ \E j \in pending, e \in TransportErrors :
          /\ fault' = [at |-> j, e |-> e]
          /\ LET r == Propagate(Steps(op, locals), locals, pc, verified, e)
             IN  Advance(op, locals, pc, r, resps, pending \ {j})
    /\ UNCHANGED <<op, given, locals, pre, resps, server, delivered, self, other>>

\* the caller has the outcome; the Client is ready for the next call
Finish ==
    /\ status = "done"
    /\ op' = "idle"
    /\ given' = <<>>
    /\ locals' = <<>>
    /\ pc' = 0
    /\ status' = "idle"
    /\ verified' = <<>>
    /\ calls' = <<>>
    /\ pending' = {}
    /\ resps' = <<>>
    /\ outcome' = "none"
    /\ error' = ""
    /\ result' = Nothing
    /\ lbData' = Nothing
    /\ fault' = [at |-> 0, e |-> ""]
    /\ pre' = server
    /\ delivered' = <<>>
    /\ UNCHANGED <<server, self, other>>

\* the running coroutine: the method, its local names and its outcome
Frame ==
    [op |-> op, given |-> given, locals |-> locals, pc |-> pc, status |-> status,
     verified |-> verified, calls |-> calls, pending |-> pending, resps |-> resps,
     outcome |-> outcome, error |-> error, result |-> result, lbData |-> lbData,
     fault |-> fault, pre |-> pre, delivered |-> delivered]

\* the event loop runs the other coroutine of the Client: a coroutine is
\* between two actions only while suspended on an await, not started or ended
Switch ==
    /\ other' = Frame
    /\ op' = other.op
    /\ given' = other.given
    /\ locals' = other.locals
    /\ pc' = other.pc
    /\ status' = other.status
    /\ verified' = other.verified
    /\ calls' = other.calls
    /\ pending' = other.pending
    /\ resps' = other.resps
    /\ outcome' = other.outcome
    /\ error' = other.error
    /\ result' = other.result
    /\ lbData' = other.lbData
    /\ fault' = other.fault
    /\ pre' = other.pre
    /\ delivered' = other.delivered
    /\ UNCHANGED <<server, self>>

Init ==
    /\ op = "idle"
    /\ given = <<>>
    /\ locals = <<>>
    /\ pc = 0
    /\ status = "idle"
    /\ verified = <<>>
    /\ calls = <<>>
    /\ pending = {}
    /\ resps = <<>>
    /\ outcome = "none"
    /\ error = ""
    /\ result = Nothing
    /\ lbData = Nothing
    /\ fault = [at |-> 0, e |-> ""]
    /\ server \in [squad : Squads, open : {TRUE}]
    /\ pre = server
    /\ delivered = <<>>
    /\ self = [http |-> "http"]
    /\ other = Frame

Next ==
    \/ \E o \in Methods : Call(o)
    \/ TransportReturn
    \/ TransportRaise
    \/ Finish

Spec == Init /\ [][Next]_vars

\* what the callers of two concurrent operations pass
Concurrent(o) ==
    CASE o = "GetLocalize" -> Req("language", {English})
      [] o = "SearchPlayers" ->
            With(With(Req("platform", {PlayStation}), Req("username", {"user"})),
                 Opt("limit", {1}))
      [] o = "JoinSquad" -> Req("name", Squads)
      [] OTHER -> { [x \in {} |-> 0] }

CallConcurrently(o) == \E g \in Concurrent(o) : Invoke(o, g)

\* two operations on one Client, each invoked once, their steps interleaved
\* at the suspension points
NextConcurrent ==
    \/ \E o \in {"GetLocalize", "SearchPlayers", "JoinSquad", "LeaveSquad"} :
          CallConcurrently(o)
    \/ TransportReturn
    \/ TransportRaise
    \/ Switch

SpecConcurrent == Init /\ [][NextConcurrent]_vars

----------------------------------------------------------------------------
(* Properties *)

Failed == outcome \notin {"none", "returned"}

\* the enumeration documented for a parameter of that name
EnumParams == {"platform", "title", "mode", "language", "timeFrame", "gameType"}
EnumOf(p) ==
    CASE p = "platform" -> "Platform"
      [] p = "title" -> "Title"
      [] p = "mode" -> "Mode"
      [] p = "language" -> "Language"
      [] p = "timeFrame" -> "TimeFrame"
      [] p = "gameType" -> "GameType"

\* the enumerated parameters of the running method that hold a non-member
NonMembers == { p \in DOMAIN locals \cap EnumParams : locals[p] \notin Enum(EnumOf(p)) }

Invoked(cls, p) == \E i \in 1 .. Len(verified) : verified[i] = <<cls, p>>

\* C1: every method handed a non-member for one of its enumerated parameters
\* has invoked the validator of such a parameter and ended with InvalidArgument
C1_NonMemberRejected ==
    (status = "done" /\ NonMembers # {}) =>
        /\ outcome = "InvalidArgument"
        /\ \E p \in NonMembers : Invoked(EnumOf(p), p)

VerifySteps(steps) == { i \in 1 .. Len(steps) : steps[i].k = "verify" }

\* C2: a method that ended with InvalidArgument issued no transport call, and
\* a method that issued a transport call had run every validator of its body
C2_InvalidArgumentBeforeTransport ==
    /\ outcome = "InvalidArgument" => calls = <<>>
    /\ calls # <<>> =>
          Len(verified) = Cardinality(VerifySteps(Steps(op, locals)))

\* C2 witness: GetLeaderboard rejected a timeFrame, the last of its four
\* validators, with gameType left to its default
C2_Witness ==
    /\ op = "GetLeaderboard"
    /\ outcome = "InvalidArgument"
    /\ Len(verified) = 4
    /\ "gameType" \notin DOMAIN given
    /\ calls = <<>>

\* C3 as stated: a method that returned issued one transport call, GetLocalize
\* and LeaveSquad two
C3_OneOrTwoCalls ==
    outcome = "returned" =>
        Len(calls) = IF op \in {"GetLocalize", "LeaveSquad"} THEN 2 ELSE 1

\* C3 amended: a method that returned issued one transport call and got its
\* body, GetLocalize and LeaveSquad two, GetPlayer and GetMatch none
C3_CallsPerMethod ==
    outcome = "returned" =>
        /\ Len(calls) = CASE op \in {"GetLocalize", "LeaveSquad"} -> 2
                          [] op \in {"GetPlayer", "GetMatch"} -> 0
                          [] OTHER -> 1
        /\ Len(resps) = Len(calls)

\* C3 witness: GetMatch returned its Match without a transport call
C3_Witness ==
    /\ op = "GetMatch"
    /\ outcome = "returned"
    /\ result.cls = "Match"
    /\ calls = <<>>

\* C4: once a transport call of a method failed, the method has ended with
\* that very failure, the failed call is its last one, none is in flight and
\* nothing was returned
C4_FailurePropagates ==
    fault.at > 0 =>
        /\ status = "done"
        /\ outcome = "TransportFailure"
        /\ error = fault.e
        /\ Len(calls) = fault.at
        /\ pending = {}
        /\ result = Nothing

\* C4 witness: GetLocalize ended with the failure of its web-localization
\* call and never called the app-localization endpoint
C4_Witness ==
    /\ op = "GetLocalize"
    /\ fault = [at |-> 1, e |-> "HttpStatusError"]
    /\ error = "HttpStatusError"
    /\ Len(calls) = 1
    /\ calls[1].ep = "GetWebLocalize"

\* C5 as stated: a method that ended in failure left the upstream state as it
\* was when the method was invoked
C5_NoPartialEffect == Failed => server = pre

\* C5 amended: a method that ended in failure returned nothing and left the
\* upstream state as it was, except LeaveSquad whose get-my-squad call failed
\* after its leave-squad call had succeeded
C5_PartialEffectOnlyLeaveSquad ==
    Failed =>
        /\ result = Nothing
        /\ \/ server = pre
           \/ /\ op = "LeaveSquad"
              /\ Len(resps) = 1
              /\ fault.at = 2

\* C5 witness: LeaveSquad failed on get-my-squad with the squad already left
C5_Witness ==
    /\ op = "LeaveSquad"
    /\ outcome = "TransportFailure"
    /\ calls[fault.at].ep = "GetMySquad"
    /\ server.squad # pre.squad

\* the number a string of digits denotes: its digits weighted by the powers
\* of ten, most significant first
RECURSIVE Pow10(_)
Pow10(n) == IF n = 0 THEN 1 ELSE 10 * Pow10(n - 1)
RECURSIVE Weighted(_, _)
Weighted(cs, i) ==
    IF i > Len(cs) THEN 0 ELSE cs[i] * Pow10(Len(cs) - i) + Weighted(cs, i + 1)
Denoted(cs) == Weighted(cs, 1)

\* C6: GetPlayerMatches with valid arguments, once its transport call returned,
\* has returned; it called the detailed endpoint alone for Activision and the
\* standard one alone otherwise; its Matches follow the list of the body
\* (data.matches, key matchID, for Activision; data, key matchId, otherwise)
\* in length and order, each with the integer its id string denotes and with
\* the wire tokens of the requested platform and title
C6_MatchesPerBranch ==
    (op = "GetPlayerMatches" /\ status = "done" /\ Len(resps) = 1) =>
        LET uno == locals["platform"] = Activision
            list == IF uno THEN resps[1].data.matches ELSE resps[1].data
        IN  /\ outcome = "returned"
            /\ Len(calls) = 1
            /\ calls[1].ep = IF uno THEN "GetPlayerMatchesDetailed" ELSE "GetPlayerMatches"
            /\ Len(result) = Len(list)
            /\ \A n \in 1 .. Len(list) :
                  /\ result[n].cls = "Match"
                  /\ result[n].data.id =
                        Denoted(IF uno THEN list[n].matchID.v ELSE list[n].matchId.v)
                  /\ result[n].data.platform = locals["platform"].tok
                  /\ result[n].data.title = locals["title"].tok

\* C6 witness: for Activision, two matches "07" and "12" came back as 7 and 12
C6_Witness ==
    /\ op = "GetPlayerMatches"
    /\ outcome = "returned"
    /\ locals["platform"] = Activision
    /\ calls[1].ep = "GetPlayerMatchesDetailed"
    /\ Len(result) = 2
    /\ resps[1].data.matches[1].matchID.v = <<0, 7>>
    /\ result[1].data.id = 7
    /\ result[2].data.id = 12

LeaderboardMethods == {"GetLeaderboard", "GetPlayerLeaderboard", "GetLeaderboardPlayers"}

\* the wire token of the timeFrame the caller asked for
RequestedTimeFrame ==
    IF "timeFrame" \in DOMAIN given THEN given["timeFrame"].tok ELSE "alltime"

\* C7: a leaderboard method with valid arguments, once its transport call
\* returned, has built its Leaderboard from the body with `timeFrame` set to
\* the requested timeFrame (AllTime when none was passed), whatever the body
\* said, and that timeFrame is the one it sent to the transport
C7_TimeFrameInjected ==
    (op \in LeaderboardMethods /\ status = "done" /\ Len(resps) = 1) =>
        /\ outcome = "returned"
        /\ DOMAIN lbData = DOMAIN resps[1].data \cup {"timeFrame"}
        /\ lbData["timeFrame"] = RequestedTimeFrame
        /\ lbData["entries"] = resps[1].data["entries"]
        /\ calls[1].args[IF op = "GetPlayerLeaderboard" THEN 6 ELSE 5] = RequestedTimeFrame
        /\ op # "GetLeaderboardPlayers" => result = Leaderboard(lbData)

\* C7 witness: GetLeaderboardPlayers called without timeFrame got a body that
\* says "weekly" and built its Leaderboard with "alltime"
C7_Witness ==
    /\ op = "GetLeaderboardPlayers"
    /\ outcome = "returned"
    /\ "timeFrame" \notin DOMAIN given
    /\ "timeFrame" \in DOMAIN resps[1].data
    /\ resps[1].data["timeFrame"] = "weekly"
    /\ lbData["timeFrame"] = "alltime"

\* C8: LeaveSquad issues get-my-squad only after leave-squad returned, and
\* when it returns, it returns the Squad of the body of that get-my-squad
\* call, which is the squad the player is in after leaving
C8_LeaveSquadRefetches ==
    op = "LeaveSquad" =>
        /\ Len(calls) = 2 =>
              /\ calls[1].ep = "LeaveSquad"
              /\ calls[2].ep = "GetMySquad"
              /\ Len(resps) >= 1
        /\ outcome = "returned" =>
              /\ Len(calls) = 2
              /\ Len(resps) = 2
              /\ result = Squad(resps[2].data)
              /\ result.data.name = server.squad
              /\ result.data.name # pre.squad

\* C8 witness: the player left "Bar" and LeaveSquad returned the Squad "Foo"
C8_Witness ==
    /\ op = "LeaveSquad"
    /\ outcome = "returned"
    /\ pre.squad = "Bar"
    /\ result = Squad([name |-> "Foo"])

\* number of firstParty friends on the first p platforms of the body
RECURSIVE FriendsUpTo(_, _)
FriendsUpTo(firstParty, p) ==
    IF p = 0 THEN 0 ELSE Len(firstParty[p][2]) + FriendsUpTo(firstParty, p - 1)

\* C9: GetMyFriends returns the uno friends in body order, then the
\* firstParty friends in platform order and body order; each firstParty
\* friend carries one nested Player per identity, in order (none when it has
\* no identities), and only friends are top-level entries
C9_FriendsFlattened ==
    (op = "GetMyFriends" /\ status = "done" /\ Len(resps) = 1) =>
        LET uno == resps[1].data.uno
            firstParty == resps[1].data.firstParty
        IN  /\ outcome = "returned"
            /\ Len(result) = Len(uno) + FriendsUpTo(firstParty, Len(firstParty))
            /\ \A n \in 1 .. Len(uno) :
                  /\ result[n].cls = "Player"
                  /\ result[n].data.username = uno[n].username
                  /\ result[n].data.platform = uno[n].platform
                  /\ "identities" \notin DOMAIN result[n].data
            /\ \A p \in 1 .. Len(firstParty) :
               \A n \in 1 .. Len(firstParty[p][2]) :
                  LET friend == firstParty[p][2][n]
                      player == result[Len(uno) + FriendsUpTo(firstParty, p - 1) + n]
                      nested == player.data.identities
                  IN  /\ player.cls = "Player"
                      /\ player.data.username = friend.username
                      /\ player.data.platform = friend.platform
                      /\ IF "identities" \in DOMAIN friend
                           THEN /\ Len(nested) = Len(friend.identities)
                                /\ \A k \in 1 .. Len(nested) :
                                      /\ nested[k].cls = "Player"
                                      /\ nested[k].data.username =
                                            friend.identities[k][2].username
                                      /\ nested[k].data.platform =
                                            friend.identities[k][2].platform
                           ELSE nested = <<>>

\* C9 witness: one uno friend and one firstParty friend with two identities
\* gave two entries, the second with two nested Players
C9_Witness ==
    /\ op = "GetMyFriends"
    /\ outcome = "returned"
    /\ Len(resps[1].data.uno) = 1
    /\ Len(resps[1].data.firstParty) = 1
    /\ Len(resps[1].data.firstParty[1][2]) = 1
    /\ Len(result) = 2
    /\ Len(result[2].data.identities) = 2
    /\ result[2].data.identities[1].data.username = "i1"

\* C10: SearchPlayers, once its transport call returned, has returned the
\* first min(limit, n) entries of the n of the body, in body order, when
\* limit > 0, and all n in body order when limit is not positive or not given
C10_SearchTruncates ==
    (op = "SearchPlayers" /\ status = "done" /\ Len(resps) = 1) =>
        LET data == resps[1].data
            limit == IF "limit" \in DOMAIN given THEN given["limit"] ELSE 0
            kept == IF limit > 0 /\ limit < Len(data) THEN limit ELSE Len(data)
        IN  /\ outcome = "returned"
            /\ Len(result) = kept
            /\ \A n \in 1 .. kept :
                  /\ result[n].cls = "Player"
                  /\ result[n].data.username = data[n].username
                  /\ result[n].data.platform = data[n].platform

\* C10 witness: limit = 2 on three players returned the first two, in order
C10_Witness ==
    /\ op = "SearchPlayers"
    /\ outcome = "returned"
    /\ "limit" \in DOMAIN given
    /\ given["limit"] = 2
    /\ Len(resps[1].data) = 3
    /\ resps[1].data[1].username = "b"
    /\ resps[1].data[2].username = "a"
    /\ Len(result) = 2
    /\ result[1].data.username = "b"
    /\ result[2].data.username = "a"

\* the entries of the body that SearchPlayers keeps: data[:limit] for a
\* positive limit, all of them otherwise
SearchKept ==
    LET data == resps[1].data
        limit == IF "limit" \in DOMAIN given THEN given["limit"] ELSE 0
    IN  SubSeq(data, 1, IF limit > 0 /\ limit < Len(data) THEN limit ELSE Len(data))

\* C11: every entry SearchPlayers returned has the accountId of its body
\* entry as an integer (the number a numeric string denotes, an integer as it
\* is, null when missing), the avatarUrlLargeSsl of a nested avatar (a plain
\* string as it is, null when missing), and platform and username unchanged
C11_EntriesReshaped ==
    (op = "SearchPlayers" /\ outcome = "returned") =>
        /\ Len(result) = Len(SearchKept)
        /\ \A n \in 1 .. Len(result) :
              LET player == SearchKept[n]
                  made == result[n].data
              IN  /\ DOMAIN made = {"platform", "username", "accountId", "avatarUrl"}
                  /\ made.platform = player.platform
                  /\ made.username = player.username
                  /\ made.accountId =
                        IF "accountId" \notin DOMAIN player THEN Nothing
                        ELSE IF player.accountId.t = "str"
                          THEN [t |-> "int", v |-> Denoted(player.accountId.v)]
                        ELSE player.accountId
                  /\ made.avatarUrl =
                        IF "avatar" \notin DOMAIN player THEN Nothing
                        ELSE IF player.avatar.t = "dict"
                          THEN player.avatar.v.avatarUrlLargeSsl
                        ELSE player.avatar

\* C11 witness: one search returned the three shapes: "12" with a nested
\* avatar, the integer 7 with a plain avatar, and an entry with neither
C11_Witness ==
    /\ op = "SearchPlayers"
    /\ outcome = "returned"
    /\ Len(result) = 3
    /\ resps[1].data[1].username = "a"
    /\ resps[1].data[2].username = "b"
    /\ resps[1].data[3].username = "c"
    /\ resps[1].data[1].accountId = [t |-> "str", v |-> <<1, 2>>]
    /\ resps[1].data[1].avatar.t = "dict"
    /\ result[1].data.accountId = [t |-> "int", v |-> 12]
    /\ result[1].data.avatarUrl.t = "str"
    /\ resps[1].data[2].accountId = [t |-> "int", v |-> 7]
    /\ result[2].data.accountId = [t |-> "int", v |-> 7]
    /\ result[2].data.avatarUrl = resps[1].data[2].avatar
    /\ "accountId" \notin DOMAIN resps[1].data[3]
    /\ result[3].data.accountId = Nothing
    /\ result[3].data.avatarUrl = Nothing

\* the methods that issue two transport calls, with the endpoints in order
TwoCalls ==
    [GetLocalize |-> <<"GetWebLocalize", "GetAppLocalize">>,
     LeaveSquad |-> <<"LeaveSquad", "GetMySquad">>]

\* C12: an operation never has two transport calls in flight: the only call
\* that can be in flight is the last one issued, every earlier call has
\* delivered its body, and in GetLocalize and LeaveSquad the second call
\* exists only once the first has returned
C12_OneCallInFlight ==
    /\ Cardinality(pending) <= 1
    /\ pending \subseteq {Len(calls)}
    /\ Len(calls) >= 1 => Len(resps) >= Len(calls) - 1
    /\ (op \in DOMAIN TwoCalls /\ Len(calls) >= 1) =>
          /\ calls[1].ep = TwoCalls[op][1]
          /\ Len(calls) = 2 =>
                /\ calls[2].ep = TwoCalls[op][2]
                /\ Len(resps) >= 1
                /\ 1 \notin pending

\* C12 witness: GetLocalize has its app-localization call in flight after
\* the web-localization call returned its body
C12_Witness ==
    /\ op = "GetLocalize"
    /\ status = "awaiting"
    /\ Len(calls) = 2
    /\ calls[2].ep = "GetAppLocalize"
    /\ pending = {2}
    /\ Len(resps) = 1

\* the outcome of method o run alone with arguments a, the transport
\* answering its calls with bodies in turn and then raising e (i, ver and n:
\* the step it is at, the validators it invoked and the bodies it consumed)
RECURSIVE Alone(_, _, _, _, _, _, _)
Alone(o, a, i, ver, n, bodies, e) ==
    LET r == Run(Steps(o, a), a, i, ver)
    IN  CASE r.end = "raise" -> Raised(r.exc)
          [] r.end = "return" -> Reshape(o, a, bodies)
          [] r.end = "await" ->
               IF n < Len(bodies)
                 THEN Alone(o, a, r.at + 1, r.verified, n + 1, bodies, e)
                 ELSE Raised(e)

\* the outcome of an ended coroutine is the one of its method run alone
\* against the responses the transport gave it
AsAlone(f) ==
    f.status = "done" =>
        LET out == Alone(f.op, f.locals, 1, <<>>, 0, f.delivered, f.fault.e)
        IN  /\ f.error = out.exc
            /\ f.result = out.value
            /\ f.lbData = out.lb

\* C13: of two operations interleaved on one Client, each ends as it would
\* have run alone against the responses the transport gave it, and the http
\* attribute of the Client is never reassigned
C13_Isolated ==
    /\ AsAlone(Frame)
    /\ AsAlone(other)
    /\ self["http"] = "http"

\* C13 witness: a GetLocalize returned its merged mapping while another
\* GetLocalize, invoked before it ended and given a different
\* web-localization body, is suspended on its app-localization call
C13_Witness ==
    /\ op = "GetLocalize"
    /\ outcome = "returned"
    /\ other.op = "GetLocalize"
    /\ other.status = "awaiting"
    /\ Len(other.delivered) = 1
    /\ Len(delivered) = 2
    /\ other.delivered[1] # delivered[1]
    /\ result = GetLocalizeReturn(delivered[1], delivered[2])

\* C15: the mapping GetLocalize returned has the keys of the web-localization
\* body and of the app-localization body and no other; a key of the
\* app-localization body has the value of that body, a key of the
\* web-localization body alone has the value of the web-localization body
C15_LocalizeMerged ==
    (op = "GetLocalize" /\ outcome = "returned") =>
        LET web == resps[1]
            app == resps[2]
        IN  /\ calls[1].ep = "GetWebLocalize"
            /\ calls[2].ep = "GetAppLocalize"
            /\ DOMAIN result = DOMAIN web \cup DOMAIN app
            /\ \A k \in DOMAIN app : result[k] = app[k]
            /\ \A k \in DOMAIN web \ DOMAIN app : result[k] = web[k]

\* C15 witness: both bodies have "title" with different values and only the
\* web-localization body has "ok"; the result has the app value of "title"
\* and the web value of "ok"
C15_Witness ==
    /\ op = "GetLocalize"
    /\ outcome = "returned"
    /\ DOMAIN resps[1] = {"title", "ok"}
    /\ DOMAIN resps[2] = {"title"}
    /\ resps[1]["title"] = "one"
    /\ resps[2]["title"] = "two"
    /\ result["title"] = "two"
    /\ result["ok"] = resps[1]["ok"]

\* C14: an operation that ended either returned or raised InvalidArgument or
\* the failure of the transport, and nothing else
C14_ThreeOutcomes ==
    status = "done" => outcome \in {"returned", "InvalidArgument", "TransportFailure"}

====
